---- MODULE Spec2Model ----
(***************************************************************************)
(* img2p6screen3: conversion of a decoded RGB image into the PC-6001       *)
(* SCREEN 3 (four colours, 2 bits per dot) or SCREEN 4 (monochrome, 1 bit  *)
(* per dot) VRAM byte stream.  The model follows main() of                 *)
(* src/img2p6screen3.c statement by statement: option parsing, image       *)
(* loading, the size check, the output open, the two packing loops (one    *)
(* step per output byte) and the common exit at the label out.             *)
(***************************************************************************)
EXTENDS Integers, Sequences, FiniteSets, TLC

(***************************************************************************)
(* Bounds of the model.                                                    *)
(***************************************************************************)
\* the decoded files of the model are 1..MaxW dots wide, or TwoGroups
MaxW == 10
\* the decoded files of the model are 1..MaxH lines high
MaxH == 2
\* number of equal steps into which 0..255 is cut for the channel values
\* tried on nearest_color (on top of 0, 127, 128 and 255)
NChan == 4

(***************************************************************************)
(* Program constants.                                                      *)
(***************************************************************************)
\* the narrowest width whose rows hold two full groups in either mode
TwoGroups == 2 * 8

IMG_XSIZE == 256
IMG_YSIZE == 192
EXIT_SUCCESS == 0
EXIT_FAILURE == 1

\* p6palette[2]: the two fixed palettes, entries 0..3, as <<r, g, b>>
p6palette ==
  << [k \in 0..3 |-> CASE k = 0 -> <<0, 255, 0>>
                       [] k = 1 -> <<255, 255, 0>>
                       [] k = 2 -> <<0, 0, 255>>
                       [] k = 3 -> <<255, 0, 0>>],
     [k \in 0..3 |-> CASE k = 0 -> <<255, 255, 255>>
                       [] k = 1 -> <<0, 255, 255>>
                       [] k = 2 -> <<255, 0, 255>>
                       [] k = 3 -> <<255, 128, 0>>] >>

(***************************************************************************)
(* Bit operations on uint8_t values.                                       *)
(***************************************************************************)
Pow2(k) == 2 ^ k

BitOf(v, k) == (v \div Pow2(k)) % 2

RECURSIVE OrBits(_, _, _)
OrBits(a, b, k) ==
  IF k < 0 THEN 0
  ELSE (IF BitOf(a, k) = 1 \/ BitOf(b, k) = 1 THEN Pow2(k) ELSE 0)
       + OrBits(a, b, k - 1)

\* a | b, stored back into a uint8_t
BitOr8(a, b) == OrBits(a % 256, b % 256, 7)

(***************************************************************************)
(* nearest_color: the scan 0..3 that keeps the first strictly smaller      *)
(* squared distance.  UINT_MAX is above every distance (at most 3*255^2),  *)
(* so the running minimum starts as "none", written -1.                    *)
(***************************************************************************)
Dist(pal, i, r, g, b) ==
  LET dr == r - pal[i][1]
      dg == g - pal[i][2]
      db == b - pal[i][3]
  IN  (dr * dr) + (dg * dg) + (db * db)

CloserOrEqual(dist, min_dist) == min_dist = -1 \/ dist <= min_dist

Closer(dist, min_dist) == min_dist = -1 \/ dist < min_dist

RECURSIVE NearestScan(_, _, _, _, _, _, _)
NearestScan(pal, r, g, b, i, min_dist, index) ==
  IF i >= 4 THEN index
  ELSE LET dist == Dist(pal, i, r, g, b)
       IN  IF Closer(dist, min_dist)
           THEN NearestScan(pal, r, g, b, i + 1, dist, i)
           ELSE NearestScan(pal, r, g, b, i + 1, min_dist, index)

nearest_color(pal, r, g, b) == NearestScan(pal, r, g, b, 0, -1, 0)

(***************************************************************************)
(* rgb_to_gray and the threshold of the SCREEN 4 loop.                     *)
(***************************************************************************)
rgb_to_gray(r, g, b) == (299 * r + 587 * g + 114 * b) \div 1000

GrayOnInclusive(gray) == gray >= 127

GrayOn(gray) == gray > 127

(***************************************************************************)
(* Row strides and the dot arithmetic of the two loops.                    *)
(***************************************************************************)
Stride3Floor(xsize) == (xsize \div 2) \div 4

Stride3(xsize) == ((xsize \div 2) + 3) \div 4

Stride4(xsize) == (xsize + 7) \div 8

Stride(m, xsize) == IF m = 3 THEN Stride3(xsize) ELSE Stride4(xsize)

SlotShiftLow(i) == i * 2

\* (3 - i) * 2: the shift of slot i inside the SCREEN 3 byte
SlotShift(i) == (3 - i) * 2

\* the uint8_t average of two channel values
Avg2(a, b) == ((a + b) \div 2) % 256

(***************************************************************************)
(* Inputs.  A pixel is <<r, g, b>>; a decoded image is the sequence of its *)
(* width*height pixels, row by row, so that byte idx of the buffer stbi    *)
(* returns is channel (idx % 3) of pixel (idx \div 3).                     *)
(***************************************************************************)
Red     == <<255, 0, 0>>
Green   == <<0, 255, 0>>
Gray127 == <<127, 127, 127>>
Gray128 == <<128, 128, 128>>

Colors == {Green, Gray127, Gray128}

\* the colours of the pictures in one or two flat areas
AreaColors == Colors \cup {Red}

\* one colour everywhere
UniformImages(w, h) == {[p \in 1..(w * h) |-> col] : col \in AreaColors}

\* one colour everywhere but for one pixel
SpotImages(w, h) ==
  {[p \in 1..(w * h) |-> IF p = at THEN fg ELSE bg] :
     at \in 1..(w * h), fg \in Colors, bg \in Colors}

\* the left half in one colour, the right half in another
HalfImages(w, h) ==
  {[p \in 1..(w * h) |-> IF ((p - 1) % w) < (w \div 2) THEN lc ELSE rc] :
     lc \in AreaColors, rc \in AreaColors}

\* the sizes of the decoded files
Widths == (1..MaxW) \cup {TwoGroups}
Heights == 1..MaxH

Images(w, h) == UniformImages(w, h) \cup SpotImages(w, h) \cup HalfImages(w, h)

\* A long, as strtol returns it on an LP64 build: hi * 2^32 + lo, with lo
\* the low 32 bits read as a signed int.  rest is what endptr points at.
OptArg(h, l, s) == [hi |-> h, lo |-> l, rest |-> s]

NoArg == [hi |-> 0, lo |-> 0, rest |-> "null"]

OptArgs(los) ==
  {OptArg(0, l, "") : l \in los} \cup {OptArg(0, 1, "x"), OptArg(1, 3, "")}

CArgs == OptArgs(0..3)
MArgs == OptArgs(2..5)
XArgs == OptArgs(Widths \cup {0, IMG_XSIZE, IMG_XSIZE + 1})
YArgs == OptArgs(Heights \cup {0, IMG_YSIZE, IMG_YSIZE + 1})

\* (int)strtol(optarg, &endptr, 10): the cast keeps the low 32 bits
StrtolInt(a) == a.lo

\* *endptr != '\0'
Trailing(a) == a.rest # ""

(***************************************************************************)
(* State.                                                                  *)
(***************************************************************************)
VARIABLES
  pc,          \* position in main()
  c,           \* last value getopt returned ("EOF" for -1)
  optarg,      \* argument of the last option
  mode, color_type, img_xsize, img_ysize,
  palette,     \* 0 until set; then the index (1 or 2) into p6palette
  img,         \* the decoded pixels
  imgState,    \* "null", "held" or "freed"
  width, height,
  ofp,         \* "null", "open" or "closed"
  fileCreated, \* whether fopen created or truncated the output file
  out,         \* the bytes fwrite accepted, in order
  y, x_byte,   \* loop counters of the packing loops
  status,
  err,         \* the message written to stderr, <<"none">> when none
  reads,       \* the row being packed and the buffer indices read for the
               \* last byte
  imgFrees,    \* number of calls of stbi_image_free
  ofpCloses,   \* number of calls of fclose
  exit_code,   \* argument of exit(), -1 while the process runs
  nc_pal, nc_rgb, \* arguments of a call of nearest_color taken alone
  nc_index        \* its result, -1 before the call returns

vars == <<pc, c, optarg, mode, color_type, img_xsize, img_ysize, palette,
          img, imgState, width, height, ofp, fileCreated, out, y, x_byte,
          status, err, reads, imgFrees, ofpCloses, exit_code,
          nc_pal, nc_rgb, nc_index>>

cfgVars == <<mode, color_type, img_xsize, img_ysize>>
imgVars == <<img, imgState, width, height>>
fileVars == <<ofp, fileCreated, out>>
loopVars == <<y, x_byte, reads>>
endVars == <<imgFrees, ofpCloses, exit_code>>
ncVars == <<nc_pal, nc_rgb, nc_index>>

MainInit ==
  /\ pc = "getopt"
  /\ c = "none"
  /\ optarg = NoArg
  /\ mode = 3
  /\ color_type = 1
  /\ img_xsize = IMG_XSIZE
  /\ img_ysize = IMG_YSIZE
  /\ palette = 0
  /\ img = <<>>
  /\ imgState = "null"
  /\ width = 0
  /\ height = 0
  /\ ofp = "null"
  /\ fileCreated = FALSE
  /\ out = <<>>
  /\ y = 0
  /\ x_byte = 0
  /\ status = EXIT_FAILURE
  /\ err = <<"none">>
  /\ reads = [row |-> 0, idx |-> {}]
  /\ imgFrees = 0
  /\ ofpCloses = 0
  /\ exit_code = -1

Init ==
  /\ MainInit
  /\ nc_pal = 1
  /\ nc_rgb = <<0, 0, 0>>
  /\ nc_index = -1

(***************************************************************************)
(* Option parsing: one action per iteration of the getopt loop.            *)
(***************************************************************************)
\* usage(): the help text on stderr, then exit(EXIT_FAILURE)
usage ==
  /\ pc' = "usage_exit"
  /\ err' = <<"usage">>
  /\ exit_code' = EXIT_FAILURE

\* what every option case leaves alone
OptFrame ==
  UNCHANGED <<palette, imgVars, fileVars, loopVars, status, imgFrees,
              ofpCloses, ncVars>>

\* break: back to the head of the loop
NextOpt == UNCHANGED <<pc, err, exit_code>>

OptC ==
  \E a \in CArgs :
    /\ pc = "getopt"
    /\ c' = "c"
    /\ optarg' = a
    /\ color_type' = StrtolInt(a)
    /\ IF Trailing(a) \/ color_type' < 1 \/ color_type' > 2
       THEN usage ELSE NextOpt
    /\ UNCHANGED <<mode, img_xsize, img_ysize>>
    /\ OptFrame

OptM ==
  \E a \in MArgs :
    /\ pc = "getopt"
    /\ c' = "m"
    /\ optarg' = a
    /\ mode' = StrtolInt(a)
    /\ IF Trailing(a) \/ (mode' # 3 /\ mode' # 4)
       THEN usage ELSE NextOpt
    /\ UNCHANGED <<color_type, img_xsize, img_ysize>>
    /\ OptFrame

OptX ==
  \E a \in XArgs :
    /\ pc = "getopt"
    /\ c' = "x"
    /\ optarg' = a
    /\ img_xsize' = StrtolInt(a)
    /\ IF Trailing(a) \/ img_xsize' < 1 \/ img_xsize' > IMG_XSIZE
       THEN usage ELSE NextOpt
    /\ UNCHANGED <<mode, color_type, img_ysize>>
    /\ OptFrame

OptY ==
  \E a \in YArgs :
    /\ pc = "getopt"
    /\ c' = "y"
    /\ optarg' = a
    /\ img_ysize' = StrtolInt(a)
    /\ IF Trailing(a) \/ img_ysize' < 1 \/ img_ysize' > IMG_YSIZE
       THEN usage ELSE NextOpt
    /\ UNCHANGED <<mode, color_type, img_xsize>>
    /\ OptFrame

\* an option getopt does not know, or one that lacks its argument
OptUnknown ==
  /\ pc = "getopt"
  /\ c' = "?"
  /\ optarg' = NoArg
  /\ usage
  /\ UNCHANGED cfgVars
  /\ OptFrame

\* getopt returns -1; argc counts what is left of the command line
OptEnd ==
  \E argc \in 1..3 :
    /\ pc = "getopt"
    /\ c' = "EOF"
    /\ optarg' = NoArg
    /\ IF argc # 2
       THEN usage /\ UNCHANGED palette
       ELSE /\ palette' = color_type
            /\ pc' = "load"
            /\ UNCHANGED <<err, exit_code>>
    /\ UNCHANGED <<cfgVars, imgVars, fileVars, loopVars, status, imgFrees,
                   ofpCloses, ncVars>>

(***************************************************************************)
(* Loading, the size check and the output open.                            *)
(***************************************************************************)
\* The files tried: of the configured size, every image of Images; of any
\* other size (no pixel of those is ever read), one image.
Decodable(w, h) ==
  IF w = img_xsize /\ h = img_ysize THEN Images(w, h)
  ELSE {[p \in 1..(w * h) |-> Green]}

\* img = stbi_load(ifname, &width, &height, &channels, 3), and the NULL test
StbiLoad ==
  /\ pc = "load"
  /\ \/ /\ UNCHANGED imgVars
        /\ err' = <<"load">>
        /\ pc' = "out"
     \/ \E w \in Widths, h \in Heights :
          \E pixels \in Decodable(w, h) :
            /\ img' = pixels
            /\ imgState' = "held"
            /\ width' = w
            /\ height' = h
            /\ pc' = "dimcheck"
            /\ UNCHANGED err
  /\ UNCHANGED <<c, optarg, cfgVars, palette, fileVars, loopVars, status,
                 endVars, ncVars>>

SizeDiffersWidthOnly == width # img_xsize

\* width != img_xsize || height != img_ysize
SizeDiffers == width # img_xsize \/ height # img_ysize

DimCheck ==
  /\ pc = "dimcheck"
  /\ IF SizeDiffers
     THEN /\ err' = <<"size", img_xsize, img_ysize, width, height>>
          /\ pc' = "out"
     ELSE /\ pc' = "fopen"
          /\ UNCHANGED err
  /\ UNCHANGED <<c, optarg, cfgVars, palette, imgVars, fileVars, loopVars,
                 status, endVars, ncVars>>

\* ofp = fopen(ofname, "wb"), and the NULL test
Fopen ==
  /\ pc = "fopen"
  /\ \/ /\ ofp' = "open"
        /\ fileCreated' = TRUE
        /\ out' = <<>>
        /\ pc' = "encode"
        /\ UNCHANGED err
     \/ /\ UNCHANGED fileVars
        /\ err' = <<"open">>
        /\ pc' = "out"
  /\ UNCHANGED <<c, optarg, cfgVars, palette, imgVars, loopVars, status,
                 endVars, ncVars>>

(***************************************************************************)
(* The packing loops.  One action packs and writes one byte.               *)
(***************************************************************************)
\* number of bytes of the buffer stbi_load returned
BufLen == width * height * 3

\* img[idx]: a byte of the buffer, or, past its end, whatever byte lies
\* there: the read is undefined, and junk is what the three-byte cells past
\* the end are found to hold while one output byte is packed
ImgByte(junk, idx) ==
  IF idx < BufLen THEN img[(idx \div 3) + 1][(idx % 3) + 1]
  ELSE junk[(idx % 3) + 1]

\* idx1 and idx2 of slot i of byte x_byte of row y (SCREEN 3)
Idx1(yy, xb, i) == (yy * img_xsize + (xb * 4 + i) * 2) * 3
Idx2(yy, xb, i) == (yy * img_xsize + (xb * 4 + i) * 2 + 1) * 3

\* idx of bit `bit` of byte x_byte of row y (SCREEN 4)
Idx(yy, xb, bit) == (yy * img_xsize + (xb * 8 + bit)) * 3

ReadSet3(yy, xb) ==
  UNION {{Idx1(yy, xb, i) + k, Idx2(yy, xb, i) + k} : i \in 0..3, k \in 0..2}

ReadSet4(yy, xb) == {Idx(yy, xb, bit) + k : bit \in 0..7, k \in 0..2}

\* what a read past the end of the buffer may find: nothing to choose when
\* every index read lies inside the buffer
Junk(idxs) == IF \A idx \in idxs : idx < BufLen THEN {Green} ELSE Colors

\* the body of the loop over i, from slot i on, with out_byte so far
RECURSIVE Pack3(_, _, _, _, _)
Pack3(junk, yy, xb, i, out_byte) ==
  IF i >= 4 THEN out_byte
  ELSE LET idx1 == Idx1(yy, xb, i)
           idx2 == Idx2(yy, xb, i)
           r == Avg2(ImgByte(junk, idx1 + 0), ImgByte(junk, idx2 + 0))
           g == Avg2(ImgByte(junk, idx1 + 1), ImgByte(junk, idx2 + 1))
           b == Avg2(ImgByte(junk, idx1 + 2), ImgByte(junk, idx2 + 2))
           color == nearest_color(p6palette[palette], r, g, b)
       IN  Pack3(junk, yy, xb, i + 1,
                 BitOr8(out_byte, (color % 4) * Pow2(SlotShift(i))))

\* the body of the loop over bit, from bit `bit` on, with out_byte so far
RECURSIVE Pack4(_, _, _, _, _)
Pack4(junk, yy, xb, bit, out_byte) ==
  IF bit >= 8 THEN out_byte
  ELSE LET idx == Idx(yy, xb, bit)
           r == ImgByte(junk, idx + 0)
           g == ImgByte(junk, idx + 1)
           b == ImgByte(junk, idx + 2)
           gray == rgb_to_gray(r, g, b) % 256
       IN  Pack4(junk, yy, xb, bit + 1,
                 IF GrayOn(gray) THEN BitOr8(out_byte, 128 \div Pow2(bit))
                 ELSE out_byte)

\* fwrite(&out_byte, 1, 1, ofp) and what follows it: on 1 the loops go on,
\* on anything else the message and goto out
Fwrite(out_byte, stride) ==
  \/ /\ out' = Append(out, out_byte)
     /\ IF x_byte + 1 < stride
        THEN x_byte' = x_byte + 1 /\ y' = y
        ELSE x_byte' = 0 /\ y' = y + 1
     /\ UNCHANGED <<pc, err>>
  \/ /\ err' = <<"write">>
     /\ pc' = "out"
     /\ UNCHANGED <<out, y, x_byte>>

EncodeFrame ==
  UNCHANGED <<c, optarg, cfgVars, palette, imgVars, ofp, fileCreated, status,
              endVars, ncVars>>

EncodeByte3 ==
  /\ pc = "encode"
  /\ mode = 3
  /\ y < img_ysize
  /\ x_byte < Stride3(img_xsize)
  /\ \E junk \in Junk(ReadSet3(y, x_byte)) :
       Fwrite(Pack3(junk, y, x_byte, 0, 0), Stride3(img_xsize))
  /\ reads' = [row |-> y, idx |-> ReadSet3(y, x_byte)]
  /\ EncodeFrame

EncodeByte4 ==
  /\ pc = "encode"
  /\ mode = 4
  /\ y < img_ysize
  /\ x_byte < Stride4(img_xsize)
  /\ \E junk \in Junk(ReadSet4(y, x_byte)) :
       Fwrite(Pack4(junk, y, x_byte, 0, 0), Stride4(img_xsize))
  /\ reads' = [row |-> y, idx |-> ReadSet4(y, x_byte)]
  /\ EncodeFrame

\* the loops are over (with a stride of 0 the loop over y runs without
\* packing anything): status = EXIT_SUCCESS
EncodeEnd ==
  /\ pc = "encode"
  /\ y >= img_ysize \/ Stride(mode, img_xsize) = 0
  /\ status' = EXIT_SUCCESS
  /\ pc' = "out"
  /\ UNCHANGED <<c, optarg, cfgVars, palette, imgVars, fileVars, loopVars,
                 err, endVars, ncVars>>

(***************************************************************************)
(* The label out: fclose, stbi_image_free, exit(status).                   *)
(***************************************************************************)
ImgAfterOutIfOpened ==
  IF imgState = "held" /\ ofp = "open" THEN "freed" ELSE imgState

\* if (img != NULL) stbi_image_free(img)
ImgAfterOut == IF imgState = "held" THEN "freed" ELSE imgState

Out ==
  /\ pc = "out"
  /\ ofp' = IF ofp = "open" THEN "closed" ELSE ofp
  /\ ofpCloses' = IF ofp = "open" THEN ofpCloses + 1 ELSE ofpCloses
  /\ imgState' = ImgAfterOut
  /\ imgFrees' = IF imgState' # imgState THEN imgFrees + 1 ELSE imgFrees
  /\ exit_code' = status
  /\ pc' = "exit"
  /\ UNCHANGED <<c, optarg, cfgVars, palette, img, width, height,
                 fileCreated, out, loopVars, status, err, ncVars>>

Next ==
  \/ OptC \/ OptM \/ OptX \/ OptY \/ OptUnknown \/ OptEnd
  \/ StbiLoad \/ DimCheck \/ Fopen
  \/ EncodeByte3 \/ EncodeByte4 \/ EncodeEnd
  \/ Out

Spec == Init /\ [][Next]_vars

(***************************************************************************)
(* nearest_color taken alone: one call on each pixel of a grid of channel  *)
(* values, with each palette.                                              *)
(***************************************************************************)
ChanVals == {0, 127, 128, 255} \cup {(255 * k) \div NChan : k \in 0..NChan}

NearestInit ==
  /\ MainInit
  /\ nc_pal \in 1..2
  /\ nc_rgb \in ChanVals \X ChanVals \X ChanVals
  /\ nc_index = -1

NearestCall ==
  /\ nc_index = -1
  /\ nc_index' = nearest_color(p6palette[nc_pal], nc_rgb[1], nc_rgb[2], nc_rgb[3])
  /\ UNCHANGED <<pc, c, optarg, cfgVars, palette, imgVars, fileVars, loopVars,
                 status, err, endVars, nc_pal, nc_rgb>>

NearestNext == NearestCall

NearestSpec == NearestInit /\ [][NearestNext]_vars

(***************************************************************************)
(* What the properties below speak of, stated without the code's loops.    *)
(***************************************************************************)
\* squared distance of two pixels in RGB space
SqDist(p, q) ==
  (p[1] - q[1]) * (p[1] - q[1]) + (p[2] - q[2]) * (p[2] - q[2])
    + (p[3] - q[3]) * (p[3] - q[3])

\* k is an entry of palette pal nearest to p, and the lowest such entry
LowestNearest(pal, p, k) ==
  /\ k \in 0..3
  /\ \A j \in 0..3 : SqDist(p, p6palette[pal][k]) <= SqDist(p, p6palette[pal][j])
  /\ \A j \in 0..3 :
       j < k => SqDist(p, p6palette[pal][j]) > SqDist(p, p6palette[pal][k])

\* the pixel of the decoded image at column xx of row yy
PixelAt(yy, xx) == img[yy * width + xx + 1]

\* the channel-wise floor((a + b) / 2) of two pixels
\* floor(s / 2): half of s less its remainder
FloorHalf(s) == (s - (s % 2)) \div 2

Merged(a, b) ==
  <<FloorHalf(a[1] + b[1]), FloorHalf(a[2] + b[2]), FloorHalf(a[3] + b[3])>>

\* the truncating (299r + 587g + 114b) / 1000 of a pixel
Luma(p) ==
  LET s == 299 * p[1] + 587 * p[2] + 114 * p[3]
  IN  (s - (s % 1000)) \div 1000

\* bits 7-2i and 6-2i of a byte, as a number 0..3
Field(byte, i) == 2 * BitOf(byte, 7 - 2 * i) + BitOf(byte, 6 - 2 * i)

\* ceil(a / b)
Ceil(a, b) == IF a % b = 0 THEN a \div b ELSE (a - (a % b)) \div b + 1

\* floor(a / 2)
Half(a) == FloorHalf(a)

\* bytes per row of the stream
RowBytes == IF mode = 3 THEN Ceil(Half(img_xsize), 4) ELSE Ceil(img_xsize, 8)

\* the run is past option parsing, with an accepted configuration
Configured == pc \notin {"getopt", "usage_exit"}

\* nothing was decoded, nothing was created, nothing was written
NothingDone == imgState = "null" /\ ~fileCreated /\ ofp = "null" /\ out = <<>>

(***************************************************************************)
(* C1.  SCREEN 3, width a multiple of 8: the byte at offset y*(W/8)+g of   *)
(* the stream holds, for each slot i in 0..3, in bits 7-2i and 6-2i, the   *)
(* lowest nearest palette entry of the floor average of the two pixels at  *)
(* columns 2(4g+i) and 2(4g+i)+1 of row y; a run that succeeds has written *)
(* the byte of every row and group.  So an all-red image gives 0xFF        *)
(* everywhere with the first palette, and a picture green on the left half *)
(* and red on the right half gives, per row, 0x00 for the left groups and  *)
(* 0xFF for the right ones.                                                *)
(***************************************************************************)
C1_FourColorBytes ==
  (mode = 3 /\ Configured /\ img_xsize % 8 = 0) =>
    LET groups == img_xsize \div 8
        allRed == \A q \in 1..Len(img) : img[q] = Red
        greenRed == \A q \in 1..Len(img) :
                      img[q] = IF ((q - 1) % width) < (width \div 2)
                               THEN Green ELSE Red
    IN
    /\ \A k \in 1..Len(out) :
         LET yy == (k - 1) \div groups
             g == (k - 1) % groups
         IN  /\ \A i \in 0..3 :
                  LowestNearest(color_type,
                                Merged(PixelAt(yy, 2 * (4 * g + i)),
                                       PixelAt(yy, 2 * (4 * g + i) + 1)),
                                Field(out[k], i))
             /\ (color_type = 1 /\ allRed) => out[k] = 255
             /\ (color_type = 1 /\ img_xsize % 16 = 0 /\ greenRed)
                  => out[k] = IF g < (groups \div 2) THEN 0 ELSE 255
    /\ (pc = "exit" /\ exit_code = EXIT_SUCCESS)
         => Len(out) = img_ysize * groups

\* a SCREEN 3 run on a 16-dot wide image of the model's full height ends
\* well, its first two pixels differ
C1_Witness ==
  /\ pc = "exit" /\ exit_code = EXIT_SUCCESS
  /\ mode = 3 /\ color_type = 1 /\ img_xsize = 16 /\ img_ysize = MaxH
  /\ img[1] = Gray128 /\ img[2] = Gray127

(***************************************************************************)
(* C2.  nearest_color returns an entry 0..3 whose squared distance to the  *)
(* pixel is at most that of every entry, and the lowest such entry.        *)
(***************************************************************************)
C2_NearestLowest ==
  nc_index # -1 => LowestNearest(nc_pal, nc_rgb, nc_index)

\* a pixel as far from entry 0 (green) as from entry 2 (blue) gave 0
C2_Witness ==
  /\ nc_pal = 1 /\ nc_rgb = <<0, 128, 128>> /\ nc_index = 0
  /\ SqDist(nc_rgb, p6palette[1][0]) = SqDist(nc_rgb, p6palette[1][2])

(***************************************************************************)
(* C3.  SCREEN 4, width a multiple of 8: bit 7-k of the byte at offset     *)
(* y*(W/8)+g is 1 exactly when the truncating luma of the pixel at column  *)
(* 8g+k of row y is above 127 (127 gives 0, 128 gives 1).                  *)
(***************************************************************************)
C3_MonochromeBits ==
  (mode = 4 /\ Configured /\ img_xsize % 8 = 0) =>
    LET groups == img_xsize \div 8 IN
    \A k \in 1..Len(out) :
      LET yy == (k - 1) \div groups
          g == (k - 1) % groups
      IN  \A j \in 0..7 :
            (BitOf(out[k], 7 - j) = 1) <=> (Luma(PixelAt(yy, 8 * g + j)) > 127)

\* a SCREEN 4 run on a 16-dot wide image ends well; the image holds a pixel
\* of luma 127 and one of luma 128
C3_Witness ==
  /\ pc = "exit" /\ exit_code = EXIT_SUCCESS
  /\ mode = 4 /\ img_xsize = 16 /\ img_ysize = MaxH
  /\ \E q \in 1..Len(img) : Luma(img[q]) = 127
  /\ \E q \in 1..Len(img) : Luma(img[q]) = 128

(***************************************************************************)
(* C4.  With an accepted configuration and an image of that size, a run    *)
(* whose writes all succeed ends with success and exactly stride*H bytes,  *)
(* stride = ceil(floor(W/2)/4) in SCREEN 3 and ceil(W/8) in SCREEN 4; no   *)
(* run writes more.                                                        *)
(***************************************************************************)
C4_ByteCount ==
  /\ ofp # "null" => Len(out) <= RowBytes * img_ysize
  /\ (pc = "exit" /\ ofp = "closed" /\ err = <<"none">>) =>
       /\ exit_code = EXIT_SUCCESS
       /\ Len(out) = RowBytes * img_ysize

\* a SCREEN 3 run of width 10 (5 merged dots, 2 bytes per row) ends well
C4_Witness ==
  /\ pc = "exit" /\ exit_code = EXIT_SUCCESS /\ err = <<"none">>
  /\ mode = 3 /\ img_xsize = 10 /\ img_ysize = MaxH
  /\ Len(out) = 2 * MaxH

(***************************************************************************)
(* C5.  An image whose width or height differs from the configured one     *)
(* ends the run in failure, the expected and the actual size reported,     *)
(* the output file never opened and no byte written.                       *)
(***************************************************************************)
C5_SizeMismatch ==
  (imgState # "null" /\ (width # img_xsize \/ height # img_ysize)) =>
    /\ ~fileCreated /\ ofp = "null" /\ out = <<>>
    /\ pc \in {"dimcheck", "out", "exit"}
    /\ status = EXIT_FAILURE
    /\ pc # "dimcheck" => err = <<"size", img_xsize, img_ysize, width, height>>
    /\ pc = "exit" => exit_code = EXIT_FAILURE

\* a run on an image of the right width and the wrong height has exited
C5_Witness ==
  /\ pc = "exit" /\ imgState = "freed"
  /\ width = img_xsize /\ height # img_ysize
  /\ err[1] = "size"

(***************************************************************************)
(* C6.  When the last group of a row is partial, the slots of that group   *)
(* past the end of the row are zero bits of the row's last byte.           *)
(***************************************************************************)
C6_PartialGroupZero ==
  Configured =>
    \A k \in 1..Len(out) :
      (k % RowBytes = 0) =>
        /\ (mode = 3 /\ Half(img_xsize) % 4 # 0) =>
             \A i \in 0..3 : i >= Half(img_xsize) % 4 => Field(out[k], i) = 0
        /\ (mode = 4 /\ img_xsize % 8 # 0) =>
             \A j \in 0..7 : j >= img_xsize % 8 => BitOf(out[k], 7 - j) = 0

(***************************************************************************)
(* C7.  SCREEN 3 with an odd configured width: the run fails without       *)
(* producing output.                                                       *)
(***************************************************************************)
C7_OddWidthFails ==
  (Configured /\ mode = 3 /\ img_xsize % 2 = 1) =>
    /\ ~fileCreated /\ out = <<>>
    /\ exit_code # EXIT_SUCCESS

(***************************************************************************)
(* C8.  A mode selector other than 3 or 4, a palette selector other than 1 *)
(* or 2, a width outside 1..256 or a height outside 1..192 ends the run in *)
(* failure during option parsing: nothing decoded, opened or written.      *)
(***************************************************************************)
\* the option argument is the decimal numeral of a number of S
NumberIn(a, S) == a.rest = "" /\ a.hi = 0 /\ a.lo \in S

C8_BadSelectorFails ==
  LET bad == \/ c = "m" /\ ~NumberIn(optarg, {3, 4})
             \/ c = "c" /\ ~NumberIn(optarg, {1, 2})
             \/ c = "x" /\ ~NumberIn(optarg, 1..256)
             \/ c = "y" /\ ~NumberIn(optarg, 1..192)
  IN  bad => /\ pc = "usage_exit"
             /\ exit_code = EXIT_FAILURE
             /\ NothingDone

(***************************************************************************)
(* C9.  On every exit after loading was attempted, the image buffer, if    *)
(* acquired, was freed exactly once and the output file, if opened, closed *)
(* exactly once, neither before the label out; the exit status is success  *)
(* only if the whole stream was written.                                   *)
(***************************************************************************)
C9_Release ==
  /\ imgFrees <= 1 /\ ofpCloses <= 1
  /\ pc # "exit" => imgFrees = 0 /\ ofpCloses = 0
  /\ pc = "exit" =>
       /\ img # <<>> => imgState = "freed" /\ imgFrees = 1
       /\ img = <<>> => imgState = "null" /\ imgFrees = 0
       /\ fileCreated => ofp = "closed" /\ ofpCloses = 1
       /\ ~fileCreated => ofp = "null" /\ ofpCloses = 0
       /\ exit_code = status
       /\ exit_code = EXIT_SUCCESS =>
            err = <<"none">> /\ Len(out) = RowBytes * img_ysize

\* the exit of a run whose size check failed, and of one whose write failed
\* after some bytes
C9_Witness ==
  /\ pc = "exit" /\ imgFrees = 1
  /\ \/ err[1] = "size" /\ ofpCloses = 0
     \/ err = <<"write">> /\ ofpCloses = 1 /\ Len(out) > 0

(***************************************************************************)
(* C10.  Every index read from the pixel buffer lies in 0..W*H*3-1 and     *)
(* belongs to the row being packed.                                        *)
(***************************************************************************)
C10_ReadsInRow ==
  \A idx \in reads.idx :
    /\ 0 <= idx /\ idx <= img_xsize * img_ysize * 3 - 1
    /\ (idx \div 3) \div img_xsize = reads.row

====
